---- MODULE Spec2Model ----
(***************************************************************************)
(* Model of the `Spawn` composable of actuate (src/ecs/spawn.rs): the      *)
(* builder calls that configure a Spawn value, its `compose` evaluation    *)
(* (create-or-update, hooks, observers, hierarchy linking), the scope's    *)
(* teardown hook and the observer trampolines dispatched by the world.     *)
(*                                                                         *)
(* A composition is a chain of scopes 1..depth: scope i+1 is the content   *)
(* of scope i.  Each scope holds the Spawn value it is evaluated with      *)
(* (`me`) and the state the runtime keeps for it across evaluations.       *)
(***************************************************************************)
EXTENDS Naturals, Sequences, FiniteSets, TLC

\* ------------------------------------------------------------------ bounds
MaxReEvals == 1     \* re-evaluations (after a scope's first) in the composition
MaxCalls == 4       \* builder calls made on the values of the composition
NumExisting == 1    \* entities present in the world before any composition
MaxBundle == 2      \* distinct bundle values
TreeDepth == 3      \* nesting depth of the chain of Spawn scopes

NoEntity == 0
None == 0

Existing == 1..NumExisting
BundleVals == 1..MaxBundle

\* A closure is named by its place among the closures of its kind registered on
\* the same value: the k-th on_insert hook, the k-th observer, the callback of
\* the k-th on_spawn call.

VARIABLES
    depth,        \* number of nested Spawn scopes in the composition
    rootCtx,      \* SpawnContext provided above the root scope (NoEntity: none)
    me,           \* me[i]: the Spawn value scope i is evaluated with (cx.me())
    building,     \* building[i]: the value is still being configured by builder calls
    evals,        \* evals[i]: evaluations of scope i so far
    is_initial,   \* use_ref cell of line 165
    cell,         \* the entity slot cached by use_bundle_inner (NoEntity: None)
    ctx,          \* the SpawnContext provided by scope i (NoEntity: not provided yet)
    scope_guard,  \* use_ref cell of line 205: the guard the teardown hook flips (0: unset)
    dropped,      \* dropped[i]: the teardown hook of scope i has fired
    guards,       \* guards[i]: the Arc<Mutex<bool>> objects allocated for scope i
    world,        \* the entities of the World, indexed by entity identifier
    log,          \* log[i]: what the last evaluation of scope i did, in order
    created,      \* created[i]: entities allocated by evaluations of scope i
    updated,      \* updated[i]: inserts into an already bound entity by scope i
    on_add_runs,  \* on_add_runs[i]: on_spawn callbacks invoked by scope i
    inv,          \* the observer invocation in flight, or the last one
    on_spawn_calls, \* on_spawn_calls[i]: on_spawn calls on the value being built
    calls,        \* builder calls made so far
    first_target, \* first_target[i]: the target seen by the first evaluation of scope i
    first_bundle, \* first_bundle[i]: the bundle of the first evaluation of scope i
    first_cell    \* first_cell[i]: the entity the first evaluation of scope i bound

vars == <<depth, rootCtx, me, building, evals, is_initial, cell, ctx, scope_guard,
          dropped, guards, world, log, created, updated, on_add_runs, inv,
          on_spawn_calls, calls, first_target, first_bundle, first_cell>>

scopeVars == <<is_initial, cell, ctx, scope_guard, log, created, updated, on_add_runs,
               first_target, first_bundle, first_cell>>

Levels == 1..depth

\* ------------------------------------------------------------- the world

\* An entity that exists before the composition: it carries a component `y`
\* that no bundle of the composition represents.
ExistingEntity == [x |-> 0, y |-> 1, parent |-> NoEntity, subs |-> <<>>]

\* world.spawn(bundle).id(): a new entity holding the bundle; its id is the next one.
SpawnEntity(w, b) == Append(w, [x |-> b, y |-> 0, parent |-> NoEntity, subs |-> <<>>])

\* Mutant: the insert replaces the entity's components by the bundle.
Insert_Replaces(w, e, b) ==
    [w EXCEPT ![e] = [x |-> b, y |-> 0, parent |-> NoEntity, subs |-> <<>>]]

\* Mutant: the insert leaves a component the entity already has.
Insert_KeepsOld(w, e, b) == w

\* world.entity_mut(e).insert(bundle): the bundle's component is set on e.
Insert(w, e, b) == [w EXCEPT ![e].x = b]

\* Mutant: the link is made the wrong way round.
add_child_Swapped(w, p, c) == [w EXCEPT ![p].parent = c]

\* world.entity_mut(p).add_child(c): c becomes a child of p.
add_child(w, p, c) == [w EXCEPT ![c].parent = p]

\* entity.observe(f): the trampoline f is subscribed on e, after the earlier ones.
EntityObserve(w, e, sub) == [w EXCEPT ![e].subs = Append(@, sub)]

\* --------------------------------------------------------------- builders

\* The values of the guards created by spawn() and by content().
InitialGuard == TRUE
ContentGuard == FALSE

NewGuard(v) == [val |-> v, poisoned |-> FALSE]

NoValue == [bundle |-> 0, content |-> FALSE, target |-> NoEntity,
            observer_fns |-> <<>>, on_add |-> None, on_insert |-> <<>>,
            observer_guard |-> 0]

\* The value built by spawn(bundle), with g the guard object it allocates.
NewSpawn(b, g) == [bundle |-> b, content |-> FALSE, target |-> NoEntity,
                   observer_fns |-> <<>>, on_add |-> None, on_insert |-> <<>>,
                   observer_guard |-> g]

\* Scope i can be handed a value: the root always, a nested scope once its
\* parent has been evaluated with content.
Composable(i) == IF i = 1 THEN TRUE ELSE evals[i-1] > 0 /\ me[i-1].content

\* Re-evaluations made so far, over the scopes 1..j.
RECURSIVE ReEvals(_)
ReEvals(j) ==
    IF j = 0 THEN 0
    ELSE ReEvals(j - 1) + (IF evals[j] > 1 THEN evals[j] - 1 ELSE 0)

\* Scope i may be evaluated once more: for the first time, or again while the
\* composition has re-evaluations left.
MayEvaluate(i) == evals[i] = 0 \/ ReEvals(depth) < MaxReEvals

\* One more builder call on the value of scope i.
Called(i) == calls < MaxCalls /\ calls' = calls + 1

spawn(i, b) ==
    /\ ~dropped[i] /\ ~building[i]
    /\ MayEvaluate(i)
    /\ Composable(i)
    /\ guards' = [guards EXCEPT ![i] = Append(@, NewGuard(InitialGuard))]
    /\ me' = [me EXCEPT ![i] = NewSpawn(b, Len(guards[i]) + 1)]
    /\ building' = [building EXCEPT ![i] = TRUE]
    /\ on_spawn_calls' = [on_spawn_calls EXCEPT ![i] = 0]
    /\ log' = [log EXCEPT ![i] = <<>>]
    /\ UNCHANGED <<depth, rootCtx, evals, dropped, world, inv, calls>>
    /\ UNCHANGED <<is_initial, cell, ctx, scope_guard, created, updated, on_add_runs,
                   first_target, first_bundle, first_cell>>

target(i, t) ==
    /\ building[i]
    /\ me' = [me EXCEPT ![i].target = t]
    /\ UNCHANGED <<depth, rootCtx, building, evals, dropped, guards, world, inv, on_spawn_calls>>
    /\ Called(i)
    /\ UNCHANGED scopeVars

content(i) ==
    /\ building[i]
    /\ guards' = [guards EXCEPT ![i] = Append(@, NewGuard(ContentGuard))]
    /\ me' = [me EXCEPT ![i] =
                [bundle |-> @.bundle,
                 content |-> TRUE,
                 target |-> @.target,
                 observer_fns |-> @.observer_fns,
                 on_add |-> @.on_add,
                 observer_guard |-> Len(guards[i]) + 1,
                 on_insert |-> @.on_insert]]
    /\ UNCHANGED <<depth, rootCtx, building, evals, dropped, world, inv, on_spawn_calls>>
    /\ Called(i)
    /\ UNCHANGED scopeVars

\* Mutant: a callback already registered is kept, the new one is dropped.
on_spawn_KeepsFirst(i) ==
    /\ building[i]
    /\ on_spawn_calls' = [on_spawn_calls EXCEPT ![i] = @ + 1]
    /\ me' = [me EXCEPT ![i].on_add = IF @ = None THEN on_spawn_calls[i] + 1 ELSE @]
    /\ UNCHANGED <<depth, rootCtx, building, evals, dropped, guards, world, inv>>
    /\ Called(i)
    /\ UNCHANGED scopeVars

on_spawn(i) ==
    /\ building[i]
    /\ on_spawn_calls' = [on_spawn_calls EXCEPT ![i] = @ + 1]
    /\ me' = [me EXCEPT ![i].on_add = on_spawn_calls[i] + 1]
    /\ UNCHANGED <<depth, rootCtx, building, evals, dropped, guards, world, inv>>
    /\ Called(i)
    /\ UNCHANGED scopeVars

on_insert(i) ==
    /\ building[i]
    /\ me' = [me EXCEPT ![i].on_insert = Append(@, Len(@) + 1)]
    /\ UNCHANGED <<depth, rootCtx, building, evals, dropped, guards, world, inv, on_spawn_calls>>
    /\ Called(i)
    /\ UNCHANGED scopeVars

\* The closure pushed by observe(): it holds the user observer in a Cell (taken
\* when the closure runs) and a clone of the guard the value holds at this call.
ObserverFn(o, g) == [obs |-> o, guard |-> g, taken |-> FALSE]

observe(i) ==
    /\ building[i]
    /\ me' = [me EXCEPT ![i].observer_fns =
                Append(@, ObserverFn(Len(@) + 1, me[i].observer_guard))]
    /\ UNCHANGED <<depth, rootCtx, building, evals, dropped, guards, world, inv, on_spawn_calls>>
    /\ Called(i)
    /\ UNCHANGED scopeVars

\* ---------------------------------------------------------------- compose

Ev(kind, id, e) == [ev |-> kind, id |-> id, ent |-> e]

\* use_context::<SpawnContext>: the context provided by the nearest enclosing
\* scope at or above level j; level 0 is whatever was provided above the root.
RECURSIVE use_context(_)
use_context(j) ==
    IF j = 0 THEN rootCtx
    ELSE IF ctx[j] # NoEntity THEN ctx[j]
    ELSE use_context(j - 1)

\* Mutant: the slot is not forced to the explicit target.
ForceTarget_Skipped(v, c) == c

\* if let Some(target) = cx.me().target { *entity = Some(target) }
ForceTarget(v, c) == IF v.target # NoEntity THEN v.target ELSE c

\* Mutant: the closure spawns a new entity on every call.
spawn_fn_AlwaysSpawns(w, c, b) ==
    [world |-> SpawnEntity(w, b), cell |-> Len(w) + 1, ev |-> "create"]

\* Mutant: the identifier of the new entity is not written into the slot.
spawn_fn_NoWriteBack(w, c, b) ==
    IF c # NoEntity
    THEN [world |-> Insert(w, c, b), cell |-> c, ev |-> "update"]
    ELSE [world |-> SpawnEntity(w, b), cell |-> c, ev |-> "create"]

\* The closure built by spawn(): update the entity of the slot, or create one
\* and write its identifier into the slot.
spawn_fn(w, c, b) ==
    IF c # NoEntity
    THEN [world |-> Insert(w, c, b), cell |-> c, ev |-> "update"]
    ELSE [world |-> SpawnEntity(w, b), cell |-> Len(w) + 1, ev |-> "create"]

\* Mutant: the hooks run last registered first.
InsertEvents_Reversed(v, e) ==
    [k \in 1..Len(v.on_insert) |->
        Ev("on_insert", v.on_insert[Len(v.on_insert) + 1 - k], e)]

\* for f in &cx.me().on_insert { f(world.entity_mut(entity.unwrap())) }
InsertEvents(v, e) ==
    [k \in 1..Len(v.on_insert) |-> Ev("on_insert", v.on_insert[k], e)]

\* The trampoline an observer closure registers with entity.observe: it keeps
\* the user observer and the guard the closure captured.
Trampoline(f, i) == [obs |-> f.obs, owner |-> i, guard |-> f.guard]

\* Mutant: the observers are attached last registered first.
RECURSIVE AttachObservers_Reversed(_, _, _, _)
AttachObservers_Reversed(w, e, fns, i) ==
    IF fns = <<>> THEN w
    ELSE EntityObserve(AttachObservers_Reversed(w, e, Tail(fns), i), e,
                       Trampoline(Head(fns), i))

\* for f in &cx.me().observer_fns { f(&mut entity_mut) }
RECURSIVE AttachObservers(_, _, _, _)
AttachObservers(w, e, fns, i) ==
    IF fns = <<>> THEN w
    ELSE AttachObservers(EntityObserve(w, e, Trampoline(Head(fns), i)), e, Tail(fns), i)

ObserveEvents(v, e) ==
    [k \in 1..Len(v.observer_fns) |-> Ev("observe", v.observer_fns[k].obs, e)]

\* if let Some(f) = cx.me().on_add.take() { f(entity_mut) }
OnAddEvents(v, e) ==
    IF v.on_add # None THEN <<Ev("on_spawn", v.on_add, e)>> ELSE <<>>

\* Mutant: on_add is called before the observers are attached.
FirstPassEvents_OnAddFirst(v, e) == OnAddEvents(v, e) \o ObserveEvents(v, e)

\* The body of `if is_initial.get() { ... }`: observers first, then on_add.
FirstPassEvents(v, e) == ObserveEvents(v, e) \o OnAddEvents(v, e)

\* Mutant: every evaluation is taken for the first.
IsInitial_Always(i) == TRUE

\* is_initial.get()
IsInitial(i) == is_initial[i]

\* The value after the first pass: every observer Cell and the on_add Cell
\* have been taken.
Taken(v) ==
    [v EXCEPT !.on_add = None,
              !.observer_fns = [k \in 1..Len(@) |-> [@[k] EXCEPT !.taken = TRUE]]]

\* The closure handed to use_bundle_inner, applied to world w and slot c.
Apply(i, v, w, c) ==
    LET r == spawn_fn(w, ForceTarget(v, c), v.bundle)
        e == r.cell
        first == IsInitial(i)
    IN  [world |-> IF first THEN AttachObservers(r.world, e, v.observer_fns, i)
                   ELSE r.world,
         cell |-> e,
         ev |-> r.ev,
         first |-> first,
         log |-> <<Ev(r.ev, 0, e)>> \o InsertEvents(v, e)
                    \o (IF first THEN FirstPassEvents(v, e) ELSE <<>>)]

\* Mutant: the entity is linked under the ancestor even with an explicit target.
AutoParent_IgnoresTarget(v, spawn_cx) == spawn_cx # NoEntity

\* if cx.me().target.is_none() { if let Ok(parent_entity) = spawn_cx... }
AutoParent(v, spawn_cx) == v.target = NoEntity /\ spawn_cx # NoEntity

\* Mutant: the context is published only by a scope that parented itself.
PublishedContext_OnlyWhenParented(v, e, spawn_cx) ==
    IF AutoParent(v, spawn_cx) THEN e ELSE NoEntity

\* SpawnContext { parent_entity: entity }
PublishedContext(v, e, spawn_cx) == e

\* The closure handed to use_provider: it links the entity under the ancestor
\* and returns the context to publish.
ProviderFn(v, w, e, spawn_cx) ==
    [world |-> IF AutoParent(v, spawn_cx) THEN add_child(w, spawn_cx, e) ELSE w,
     ctx |-> PublishedContext(v, e, spawn_cx),
     ev |-> IF AutoParent(v, spawn_cx) THEN <<Ev("add_child", 0, spawn_cx)>>
            ELSE <<>>]

\* Mutant: the provider closure runs on every evaluation.
use_provider_EveryTime(i, v, w, e, spawn_cx) == ProviderFn(v, w, e, spawn_cx)

\* use_provider: the closure runs on the first evaluation of the scope only;
\* later evaluations keep the context it returned.
use_provider(i, v, w, e, spawn_cx) ==
    IF ctx[i] # NoEntity
    THEN [world |-> w, ctx |-> ctx[i], ev |-> <<>>]
    ELSE ProviderFn(v, w, e, spawn_cx)

\* use_bundle_inner: the closure is applied to the world and to the entity slot
\* the runtime caches for the scope.
use_bundle_inner(i, v) == Apply(i, v, world, cell[i])

compose(i) ==
    /\ ~dropped[i]
    /\ me[i] # NoValue
    /\ MayEvaluate(i)
    /\ Composable(i)
    /\ inv.pc # "running"
    \* cell.take().unwrap() in an observer closure panics on a second call
    /\ IsInitial(i) => \A k \in 1..Len(me[i].observer_fns) : ~me[i].observer_fns[k].taken
    /\ LET v == me[i]
           spawn_cx == use_context(i - 1)
           a == use_bundle_inner(i, v)
           p == use_provider(i, v, a.world, a.cell, spawn_cx)
       IN  /\ world' = p.world
           /\ cell' = [cell EXCEPT ![i] = a.cell]
           /\ first_cell' = [first_cell EXCEPT ![i] = IF evals[i] = 0 THEN a.cell ELSE @]
           /\ ctx' = [ctx EXCEPT ![i] = p.ctx]
           /\ me' = [me EXCEPT ![i] = IF a.first THEN Taken(v) ELSE v]
           /\ is_initial' = [is_initial EXCEPT ![i] = IF a.first THEN FALSE ELSE @]
           /\ scope_guard' = [scope_guard EXCEPT ![i] =
                                IF @ = 0 THEN v.observer_guard ELSE @]
           /\ log' = [log EXCEPT ![i] = a.log \o p.ev]
           /\ created' = [created EXCEPT ![i] = IF a.ev = "create" THEN @ + 1 ELSE @]
           /\ updated' = [updated EXCEPT ![i] = IF a.ev = "update" THEN @ + 1 ELSE @]
           /\ on_add_runs' = [on_add_runs EXCEPT ![i] =
                                IF a.first /\ v.on_add # None THEN @ + 1 ELSE @]
    /\ first_target' = [first_target EXCEPT ![i] = IF evals[i] = 0 THEN me[i].target ELSE @]
    /\ first_bundle' = [first_bundle EXCEPT ![i] = IF evals[i] = 0 THEN me[i].bundle ELSE @]
    /\ evals' = [evals EXCEPT ![i] = @ + 1]
    /\ building' = [building EXCEPT ![i] = FALSE]
    /\ UNCHANGED <<depth, rootCtx, dropped, guards, inv, on_spawn_calls, calls>>

\* --------------------------------------------------------------- teardown

\* The write of the teardown hook: *guard.lock().unwrap() = false.  On a
\* poisoned mutex unwrap() panics and the guard is left as it is.
DropGuard(g) == IF g.poisoned THEN g ELSE [g EXCEPT !.val = FALSE]

\* The lock of guard g of scope i is held by an observer invocation in flight.
Locked(i, g) == inv.pc = "running" /\ inv.owner = i /\ inv.guard = g

\* The teardown hook registered by use_drop fires: scope i is discarded.
drop(i) ==
    /\ evals[i] > 0
    /\ ~dropped[i]
    /\ ~Locked(i, scope_guard[i])
    /\ guards' = [guards EXCEPT ![i][scope_guard[i]] = DropGuard(@)]
    /\ dropped' = [dropped EXCEPT ![i] = TRUE]
    /\ building' = [building EXCEPT ![i] = FALSE]
    /\ UNCHANGED <<depth, rootCtx, me, evals, world, inv, on_spawn_calls, calls>>
    /\ UNCHANGED scopeVars

\* ------------------------------------------------------------- observers

Idle == [pc |-> "idle", owner |-> 0, obs |-> 0, guard |-> 0, after_drop |-> FALSE]

\* let guard = guard.lock().unwrap(); if !*guard { panic!(...) }
\* The outcome of the trampoline's check on guard g: the user logic runs, or
\* the invocation panics.
GuardCheck(g) == IF g.poisoned \/ ~g.val THEN "panicked" ELSE "running"

\* A panic while the lock is held poisons the mutex.
Poison(g) == IF ~g.poisoned /\ ~g.val THEN [g EXCEPT !.poisoned = TRUE] ELSE g

\* The world dispatches an event to the k-th trampoline subscribed on entity e:
\* it takes the lock, checks the guard and starts the user logic or panics.
trampoline(e, k) ==
    /\ inv.pc # "running"
    /\ LET s == world[e].subs[k]
           g == guards[s.owner][s.guard]
       IN  /\ inv' = [pc |-> GuardCheck(g), owner |-> s.owner, obs |-> s.obs,
                      guard |-> s.guard, after_drop |-> dropped[s.owner]]
           /\ guards' = [guards EXCEPT ![s.owner][s.guard] = Poison(@)]
    /\ UNCHANGED <<depth, rootCtx, me, building, evals, dropped, world, on_spawn_calls, calls>>
    /\ UNCHANGED scopeVars

\* observer.run(trigger, params.p0()) returns and the lock is released.
observer_return ==
    /\ inv.pc = "running"
    /\ inv' = Idle
    /\ UNCHANGED <<depth, rootCtx, me, building, evals, dropped, guards, world, on_spawn_calls, calls>>
    /\ UNCHANGED scopeVars

\* ---------------------------------------------------------- specifications

RootContexts == {NoEntity, 1}

InitWith(d) ==
    /\ depth = d
    /\ rootCtx \in RootContexts
    /\ me = [i \in 1..d |-> NoValue]
    /\ building = [i \in 1..d |-> FALSE]
    /\ evals = [i \in 1..d |-> 0]
    /\ is_initial = [i \in 1..d |-> TRUE]
    /\ cell = [i \in 1..d |-> NoEntity]
    /\ ctx = [i \in 1..d |-> NoEntity]
    /\ scope_guard = [i \in 1..d |-> 0]
    /\ dropped = [i \in 1..d |-> FALSE]
    /\ guards = [i \in 1..d |-> <<>>]
    /\ world = [e \in Existing |-> ExistingEntity]
    /\ log = [i \in 1..d |-> <<>>]
    /\ created = [i \in 1..d |-> 0]
    /\ updated = [i \in 1..d |-> 0]
    /\ on_add_runs = [i \in 1..d |-> 0]
    /\ inv = Idle
    /\ on_spawn_calls = [i \in 1..d |-> 0]
    /\ calls = 0
    /\ first_target = [i \in 1..d |-> NoEntity]
    /\ first_bundle = [i \in 1..d |-> 0]
    /\ first_cell = [i \in 1..d |-> NoEntity]

\* One Spawn scope: every builder call and any number of evaluations.
Init == InitWith(1)

Next ==
    \/ \E i \in Levels, b \in BundleVals : spawn(i, b)
    \/ \E i \in Levels, t \in Existing : target(i, t)
    \/ \E i \in Levels : content(i)
    \/ \E i \in Levels : on_spawn(i)
    \/ \E i \in Levels : on_insert(i)
    \/ \E i \in Levels : observe(i)
    \/ \E i \in Levels : compose(i)

Spec == Init /\ [][Next]_vars

\* One Spawn scope with its observers: the builder calls that decide the guard,
\* evaluation, the teardown hook and the trampolines the world dispatches.
GuardNext ==
    \/ \E i \in Levels, b \in BundleVals : spawn(i, b)
    \/ \E i \in Levels : content(i)
    \/ \E i \in Levels : observe(i)
    \/ \E i \in Levels : compose(i)
    \/ \E i \in Levels : drop(i)
    \/ \E e \in DOMAIN world : \E k \in DOMAIN world[e].subs : trampoline(e, k)
    \/ observer_return

GuardSpec == Init /\ [][GuardNext]_vars

\* A chain of nested Spawn scopes configured with target() and content(); every
\* scope spawns the same bundle, which plays no part in the hierarchy.
TreeInit == InitWith(TreeDepth)

TreeNext ==
    \/ \E i \in Levels : spawn(i, 1)
    \/ \E i \in Levels, t \in Existing : target(i, t)
    \/ \E i \in Levels : content(i)
    \/ \E i \in Levels : compose(i)

TreeSpec == TreeInit /\ [][TreeNext]_vars

\* ------------------------------------------------------------------ claims

\* Scope i has been evaluated and its value has not been replaced since: me[i]
\* is the value its last evaluation saw.
Evaluated(i) == evals[i] >= 1 /\ ~building[i]

\* me[i] is the value scope i was first evaluated with, or is about to be.
FirstValue(i) == evals[i] = 0 \/ (evals[i] = 1 /\ ~building[i])

\* The guard objects of the instance of scope i: the guard its value holds and
\* those of the observer closures registered on it, and the guards of the
\* trampolines the scope attached to its entity.
HeldGuards(i) ==
    (IF FirstValue(i) /\ me[i] # NoValue
     THEN {me[i].observer_guard}
          \cup {me[i].observer_fns[k].guard : k \in DOMAIN me[i].observer_fns}
     ELSE {})
    \cup UNION {{world[e].subs[k].guard :
                    k \in {n \in DOMAIN world[e].subs : world[e].subs[n].owner = i}} :
                 e \in DOMAIN world}

\* C1: an observer invocation that starts after the teardown hook of its scope
\* has fired never runs the user's observer logic.
C1_NoObserverAfterTeardown == inv.pc = "running" => ~inv.after_drop

\* C2: an observer invocation that starts while its scope is alive does not
\* abort: it finds the guard true and runs the user's observer logic.
C2_ObserverRunsWhileAlive == inv.pc = "panicked" => inv.after_drop

\* What a step may do to the guards of scope i.
GuardStepOK(i) ==
    /\ ~dropped'[i] => \A g \in HeldGuards(i)' : guards'[i][g].val
    /\ \A g \in DOMAIN guards[i] :
          guards'[i][g].val # guards[i][g].val =>
              guards[i][g].val /\ ~dropped[i] /\ dropped'[i]
    /\ (~dropped[i] /\ dropped'[i]) => \A g \in HeldGuards(i) : ~guards'[i][g].val

\* C3: every guard held by a scope and by its observer closures reads true
\* until the teardown hook fires; a guard's value changes only at teardown,
\* from true to false, and teardown leaves every held guard false.
C3_GuardTrueUntilTeardown == [][\A i \in Levels : GuardStepOK(i)]_vars

\* C4 as claimed: N evaluations of a scope perform exactly one creation and
\* N-1 updates.
C4_OneCreationAlways ==
    \A i \in Levels :
        evals[i] >= 1 => created[i] = 1 /\ updated[i] = evals[i] - 1

\* C4 as amended: N evaluations of a scope whose first evaluation saw no explicit
\* target perform exactly one creation and N-1 updates; when the first
\* evaluation saw an explicit target they perform no creation and N updates.
C4_OneCreation ==
    \A i \in Levels :
        evals[i] >= 1 =>
            IF first_target[i] = NoEntity
            THEN created[i] = 1 /\ updated[i] = evals[i] - 1
            ELSE created[i] = 0 /\ updated[i] = evals[i]

C4_Witness ==
    \E i \in Levels :
        evals[i] >= 2 /\ first_target[i] = NoEntity /\ created[i] = 1
        /\ updated[i] = evals[i] - 1 /\ Len(world) = NumExisting + 1

\* C5: after every evaluation with an explicit target the cached identifier is
\* the target, the create-or-update function ran on the target (the slot was
\* forced before it), and it updated: no entity was allocated.
C5_TargetIdempotent ==
    \A i \in Levels :
        (Evaluated(i) /\ me[i].target # NoEntity) =>
            /\ cell[i] = me[i].target
            /\ log[i][1] = Ev("update", 0, me[i].target)

C5_Witness ==
    \E i \in Levels :
        /\ Evaluated(i) /\ evals[i] >= 2
        /\ me[i].target # NoEntity /\ first_target[i] = me[i].target
        /\ cell[i] = me[i].target /\ created[i] = 0

\* The place of each kind of event in the order of a first evaluation: as
\* claimed (the on_spawn callback before the observers), or the other way round.
Rank(ev, claimed) ==
    CASE ev \in {"create", "update"} -> 0
      [] ev = "on_insert" -> 1
      [] ev = "on_spawn" -> IF claimed THEN 2 ELSE 3
      [] ev = "observe" -> IF claimed THEN 3 ELSE 2
      [] ev = "add_child" -> 4

\* The events of kind `kind` in log l, in order.
EventsOf(l, kind) == SelectSeq(l, LAMBDA x : x.ev = kind)

\* Log l of a first evaluation of value v holds one create-or-update, every
\* on_insert hook and every observer attachment of v in registration order and
\* at most one on_spawn call, the kinds in the order Rank gives.
FirstLogOrdered(l, v, claimed) ==
    /\ Len(l) >= 1 /\ l[1].ev \in {"create", "update"}
    /\ \A p, q \in DOMAIN l : p < q => Rank(l[p].ev, claimed) <= Rank(l[q].ev, claimed)
    /\ Len(EventsOf(l, "create")) + Len(EventsOf(l, "update")) = 1
    /\ [k \in 1..Len(EventsOf(l, "on_insert")) |-> EventsOf(l, "on_insert")[k].id]
          = v.on_insert
    /\ [k \in 1..Len(EventsOf(l, "observe")) |-> EventsOf(l, "observe")[k].id]
          = [k \in 1..Len(v.observer_fns) |-> v.observer_fns[k].obs]
    /\ Len(EventsOf(l, "on_spawn")) <= 1

\* C6 as claimed: the first evaluation runs create-or-update, the on_insert
\* hooks in registration order, the on_spawn callback, then the observer
\* attachments.
C6_OnSpawnBeforeObservers ==
    \A i \in Levels :
        (Evaluated(i) /\ evals[i] = 1) => FirstLogOrdered(log[i], me[i], TRUE)

\* C6 as amended: the first evaluation runs create-or-update, the on_insert
\* hooks in registration order, the observer attachments in registration
\* order, then the on_spawn callback.
C6_ObserversBeforeOnSpawn ==
    \A i \in Levels :
        (Evaluated(i) /\ evals[i] = 1) => FirstLogOrdered(log[i], me[i], FALSE)

C6_Witness ==
    \E i \in Levels :
        /\ Evaluated(i) /\ evals[i] = 1
        /\ Len(EventsOf(log[i], "on_insert")) = 2
        /\ Len(EventsOf(log[i], "on_spawn")) = 1
        /\ Len(EventsOf(log[i], "observe")) >= 1
        /\ log[i][Len(log[i])].ev = "on_spawn"

\* What a step may do to the count of on_spawn callbacks scope i has invoked.
OnSpawnStepOK(i) ==
    /\ on_add_runs'[i] # on_add_runs[i] =>
          evals[i] = 0 /\ evals'[i] = 1 /\ on_add_runs[i] = 0 /\ on_add_runs'[i] = 1
    /\ (evals[i] = 0 /\ evals'[i] = 1 /\ me[i].on_add # None) => on_add_runs'[i] = 1

\* C7: the on_spawn callback is invoked only by the first evaluation of a
\* scope, once if the value of that evaluation carries one; no re-evaluation
\* invokes a callback, whatever value it is given.
C7_OnSpawnOnce == [][\A i \in Levels : OnSpawnStepOK(i)]_vars

C7_Witness ==
    \E i \in Levels :
        /\ Evaluated(i) /\ evals[i] >= 2
        /\ on_add_runs[i] = 1
        /\ me[i].on_add # None
        /\ EventsOf(log[i], "on_spawn") = <<>>

\* The trampolines subscribed on entity e in world w (none when e is not in w).
SubsOf(w, e) == IF e \in DOMAIN w THEN w[e].subs ELSE <<>>

\* What an evaluation of scope i may do to the subscriptions of the world.
ObserveStepOK(i) ==
    /\ (evals[i] = 0 /\ evals'[i] = 1) =>
          /\ SubsOf(world', cell'[i]) =
                SubsOf(world, cell'[i]) \o
                [k \in 1..Len(me[i].observer_fns) |-> Trampoline(me[i].observer_fns[k], i)]
          /\ \A e \in DOMAIN world' \ {cell'[i]} : SubsOf(world', e) = SubsOf(world, e)
    /\ (evals[i] >= 1 /\ evals'[i] = evals[i] + 1) =>
          \A e \in DOMAIN world' : SubsOf(world', e) = SubsOf(world, e)

\* C8: the first evaluation attaches every registered observer to the bound
\* entity once, in registration order; a re-evaluation changes no entity's
\* subscriptions.
C8_ObserversAttachedOnce == [][\A i \in Levels : ObserveStepOK(i)]_vars

C8_Witness ==
    \E i \in Levels :
        /\ Evaluated(i) /\ evals[i] >= 2
        /\ Len(me[i].observer_fns) >= 1
        /\ Len(world[cell[i]].subs) = 2
        /\ world[cell[i]].subs[1].obs = 1 /\ world[cell[i]].subs[2].obs = 2

\* Scope i has been evaluated, never with an explicit target: the entity it is
\* bound to is the one its first evaluation created.
OwnEntity(i) ==
    evals[i] >= 1 /\ first_target[i] = NoEntity /\ cell[i] \notin Existing

ParentOf(e) == world[e].parent

\* C9: in a chain of Spawn scopes evaluated without explicit targets, the
\* entity of each nested scope is a child of the entity of the scope directly
\* enclosing it, and the root's entity is a child of the entity of the context
\* above the root, or of nothing when there is none.
C9_NestedUnderNearest ==
    \A i \in Levels :
        (\A j \in 1..i : OwnEntity(j)) =>
            ParentOf(cell[i]) = (IF i = 1 THEN rootCtx ELSE cell[i - 1])

C9_Witness ==
    /\ rootCtx = NoEntity
    /\ \A j \in 1..3 : OwnEntity(j)
    /\ ParentOf(cell[3]) = cell[2] /\ ParentOf(cell[2]) = cell[1]
    /\ ParentOf(cell[1]) = NoEntity
    /\ cell[1] # cell[2] /\ cell[2] # cell[3]

\* C10: every evaluated scope has published a context, equal to the entity its
\* first evaluation bound: the explicit target when it had one, else the entity
\* it created; and a nested scope that created its entity is parented to the
\* context of the scope directly enclosing it, explicit target or not.
C10_PublishesBoundEntity ==
    \A i \in Levels :
        evals[i] >= 1 =>
            /\ ctx[i] # NoEntity
            /\ first_target[i] # NoEntity => ctx[i] = first_target[i]
            /\ first_target[i] = NoEntity => ctx[i] \in DOMAIN world \ Existing
            /\ evals[i] = 1 => ctx[i] = cell[i]
            /\ (i > 1 /\ OwnEntity(i)) => ParentOf(cell[i]) = ctx[i - 1]

C10_Witness ==
    /\ OwnEntity(1) /\ OwnEntity(3)
    /\ evals[2] >= 1 /\ first_target[2] # NoEntity
    /\ ctx[2] = first_target[2]
    /\ ParentOf(cell[3]) = first_target[2]
    /\ ParentOf(first_target[2]) = NoEntity

\* The step is the first evaluation of scope i.
FirstEvaluation(i) == evals[i] = 0 /\ evals'[i] = 1

\* The step is a re-evaluation of scope i.
ReEvaluation(i) == evals[i] >= 1 /\ evals'[i] = evals[i] + 1

\* The parent of entity e in world w (none for an entity that is not in w yet).
ParentIn(w, e) == IF e \in DOMAIN w THEN w[e].parent ELSE NoEntity

\* What the first evaluation of scope i does to the hierarchy: it binds an entity
\* and publishes it, and links it under the ancestor when it may.
LinkStepOK(i) ==
    FirstEvaluation(i) =>
        LET e == cell'[i]
            anc == use_context(i - 1)
            linked == me[i].target = NoEntity /\ anc # NoEntity
        IN  /\ e \in DOMAIN world'
            /\ ctx'[i] = e
            /\ \A x \in DOMAIN world' \ {e} : ParentIn(world', x) = ParentIn(world, x)
            /\ ParentIn(world', e) = (IF linked THEN anc ELSE ParentIn(world, e))
            /\ EventsOf(log'[i], "add_child") =
                  (IF linked THEN <<Ev("add_child", 0, anc)>> ELSE <<>>)

\* C11: the first evaluation links the bound entity under the ancestor entity
\* exactly when the value has no explicit target and an ancestor context is
\* there; otherwise no parent link changes, and in every case the evaluation
\* binds an entity and publishes it as its context.
C11_LinkedWhenNoTargetAndAncestor == [][\A i \in Levels : LinkStepOK(i)]_vars

C11_Witness ==
    /\ rootCtx = NoEntity /\ \A j \in 1..3 : evals[j] = 1
    /\ first_target[1] = NoEntity /\ ParentOf(cell[1]) = NoEntity /\ ctx[1] = cell[1]
    /\ first_target[2] # NoEntity /\ cell[2] = first_target[2]
    /\ ParentOf(cell[2]) = NoEntity /\ ctx[2] = cell[2]
    /\ first_target[3] = NoEntity /\ ParentOf(cell[3]) = ctx[2]

\* What a re-evaluation of scope i leaves alone in the hierarchy.
NoRelinkStepOK(i) ==
    ReEvaluation(i) =>
        /\ ctx'[i] = ctx[i]
        /\ DOMAIN world' = DOMAIN world
        /\ \A x \in DOMAIN world : ParentIn(world', x) = ParentIn(world, x)
        /\ EventsOf(log'[i], "add_child") = <<>>

\* C12: a re-evaluation links nothing: every entity keeps its parent and the
\* scope keeps the context it published, whatever target the re-evaluation sees.
C12_NoRelinkOnReEvaluation == [][\A i \in Levels : NoRelinkStepOK(i)]_vars

C12_Witness ==
    /\ evals[2] >= 2 /\ Evaluated(2)
    /\ first_target[2] = NoEntity /\ me[2].target # NoEntity
    /\ cell[2] = me[2].target /\ first_cell[2] # cell[2]
    /\ ctx[2] = first_cell[2]
    /\ ParentOf(first_cell[2]) = cell[1] /\ ParentOf(cell[2]) = NoEntity

LatestStepOK(i) ==
    (evals'[i] = evals[i] + 1) =>
        /\ cell'[i] \in DOMAIN world'
        /\ world'[cell'[i]].x = me[i].bundle
        /\ ReEvaluation(i) =>
              cell'[i] = (IF me[i].target # NoEntity THEN me[i].target ELSE cell[i])
        /\ (cell[i] = first_cell[i] /\ me[i].target \in {NoEntity, first_cell[i]}) =>
              cell'[i] = first_cell'[i]

C14_OnInsertEveryEvaluation ==
    \A i \in Levels :
        Evaluated(i) =>
            LET l == log[i]
                n == Len(me[i].on_insert)
            IN  /\ Len(l) >= n + 1
                /\ l[1].ev \in {"create", "update"} /\ l[1].ent = cell[i]
                /\ \A k \in 1..n : l[k + 1] = Ev("on_insert", me[i].on_insert[k], cell[i])
                /\ Len(EventsOf(l, "on_insert")) = n
                /\ evals[i] >= 2 => (Len(l) = n + 1 /\ l[1].ev = "update")

C14_Witness ==
    \E i \in Levels :
        /\ Evaluated(i) /\ evals[i] >= 2
        /\ me[i].on_insert = <<1, 2>>
        /\ me[i].on_add # None /\ Len(me[i].observer_fns) >= 1
        /\ log[i] = <<Ev("update", 0, cell[i]), Ev("on_insert", 1, cell[i]),
                      Ev("on_insert", 2, cell[i])>>

\* What a step may do to the entity slot and the first-evaluation flag of scope i.
BoundStepOK(i) ==
    /\ cell[i] # NoEntity => cell'[i] # NoEntity
    /\ ~is_initial[i] => ~is_initial'[i]
    /\ evals'[i] = 0 => (cell'[i] = NoEntity /\ is_initial'[i])
    /\ evals'[i] >= 1 => (cell'[i] \in DOMAIN world' /\ ~is_initial'[i])

\* C15: the entity slot of a scope is empty exactly until its first evaluation
\* and holds an entity ever after; the first-evaluation flag is set exactly
\* until the first evaluation and never set again.
C15_BoundForever == [][\A i \in Levels : BoundStepOK(i)]_vars

C15_Witness ==
    \E i \in Levels :
        /\ evals[i] >= 2 /\ ~building[i]
        /\ cell[i] # NoEntity /\ cell[i] = first_cell[i]
        /\ ~is_initial[i]
        /\ me[i].target = NoEntity /\ first_target[i] = NoEntity

\* C16: an observer invocation that passed the guard check while its scope was
\* alive runs its user logic to the end before the teardown hook of the scope
\* writes: while the user logic executes, the scope is not torn down and the
\* guard the invocation checked and the guard of the scope both read true.
C16_CheckAndLogicAtomic ==
    (inv.pc = "running" /\ ~inv.after_drop) =>
        /\ guards[inv.owner][inv.guard].val
        /\ ~dropped[inv.owner]
        /\ guards[inv.owner][scope_guard[inv.owner]].val

\* The pieces of configuration a builder call can name.
BuilderFields == {"target", "content", "on_add", "on_insert", "observer_fns"}

\* What a builder call on the value of scope i (a step that changes the value
\* while it is being configured) may change.
BuilderStepOK(i) ==
    (building[i] /\ building'[i] /\ me'[i] # me[i]) =>
        /\ me'[i].bundle = me[i].bundle
        /\ \E f \in BuilderFields :
              \A g \in BuilderFields \ {f} : me'[i][g] = me[i][g]
        /\ me'[i].observer_guard = me[i].observer_guard
        /\ guards'[i][me'[i].observer_guard] = guards[i][me[i].observer_guard]

\* C17: a builder call changes one piece of the configuration and leaves the
\* others as they were; none of them, content() included, changes the guard
\* the value holds, neither the object nor its value.
C17_BuildersKeepTheRest == [][\A i \in Levels : BuilderStepOK(i)]_vars

\* C18: the on_add slot of a value holds nothing or the callback of the most
\* recent on_spawn() call; the first evaluation invokes that callback and no
\* other, and leaves the slot empty.
C18_LastOnSpawnOnly ==
    \A i \in Levels :
        /\ me[i].on_add \in {None, on_spawn_calls[i]}
        /\ building[i] => me[i].on_add = on_spawn_calls[i]
        /\ (Evaluated(i) /\ evals[i] = 1) =>
              /\ me[i].on_add = None
              /\ EventsOf(log[i], "on_spawn") =
                    (IF on_spawn_calls[i] > 0
                     THEN <<Ev("on_spawn", on_spawn_calls[i], cell[i])>>
                     ELSE <<>>)

C18_Witness ==
    \E i \in Levels :
        /\ Evaluated(i) /\ evals[i] = 1
        /\ on_spawn_calls[i] >= 2
        /\ EventsOf(log[i], "on_spawn") = <<Ev("on_spawn", on_spawn_calls[i], cell[i])>>
        /\ on_add_runs[i] = 1 /\ me[i].on_add = None

\* What an evaluation of scope i that updates (its create-or-update found the
\* slot set) may change in the world.
UpdateStepOK(i) ==
    (evals'[i] = evals[i] + 1 /\ log'[i][1].ev = "update") =>
        LET e == cell'[i]
        IN  /\ DOMAIN world' = DOMAIN world
            /\ \A x \in DOMAIN world \ {e} : world'[x] = world[x]
            /\ world'[e].x = me[i].bundle
            /\ world'[e].y = world[e].y
            /\ world'[e].parent = world[e].parent
            /\ ReEvaluation(i) => world' = [world EXCEPT ![e].x = me[i].bundle]
            /\ (ReEvaluation(i) /\ world[e].x = me[i].bundle) => world' = world

\* C19: an update sets the bundle's component on the bound entity and changes
\* nothing else: the entity's other components and its parent stay, no entity
\* is added and every other entity is left as it was; a re-evaluation with the
\* bundle the entity already holds leaves the world unchanged.
C19_UpdateOnlyBundle == [][\A i \in Levels : UpdateStepOK(i)]_vars

C19_Witness ==
    \E i \in Levels :
        /\ Evaluated(i) /\ evals[i] >= 2 /\ updated[i] >= 2
        /\ cell[i] \in Existing /\ me[i].target = cell[i]
        /\ first_bundle[i] = me[i].bundle
        /\ world[cell[i]].x = me[i].bundle
        /\ world[cell[i]].y = ExistingEntity.y
        /\ Len(world) = NumExisting

====
